---- MODULE Spec2Model ----
(***************************************************************************)
(* Model of scripts/test-search.py: the run-tests conformance harness      *)
(* (cmd_run_tests and its helpers) and the token sort-key parser           *)
(* (parse_token_sk).                                                       *)
(*                                                                         *)
(* Python strings that the code only passes around are TLA+ strings; the   *)
(* strings the code slices and searches (sort keys) are sequences of       *)
(* one-character strings.  The subject is the sequence of its words.       *)
(***************************************************************************)
EXTENDS Integers, Sequences, FiniteSets, TLC

VARIABLES
    pc,             \* position of cmd_run_tests
    item,           \* the seed document fetched by the setup block
    subject,        \* locals of cmd_run_tests, set by the setup block
    subject_words,
    from_email,
    first_mailbox,
    first_keyword,
    search_chunks,
    num,            \* number of the scenario the straight-line code is at
    results,        \* the results list
    out,            \* the scenario lines printed so far
    summary,        \* the final count line, <<>> until printed
    requests,       \* external requests issued so far
    resp,           \* response last handed to a scenario
    exit_status,    \* process exit status, -1 while running
    anomalies,      \* number of non-nominal responses the collaborators gave
    cpc,            \* position of the key parser run
    input,          \* the tuple a key was built from, or a raw key
    sk,             \* the sort key handed to parse_token_sk
    parsed,         \* what parse_token_sk returned or raised
    lpc,            \* position of cmd_list_tokens
    arg_field,      \* args.field, <<>> when not given
    arg_prefix,     \* args.prefix, <<>> when not given
    table,          \* the sort keys of the account's partition, in key order
    sk_prefix,      \* the prefix handed to begins_with
    last_key,       \* LastEvaluatedKey as a position in table, 0 for none
    items,          \* sort keys of the items collected by the query loop
    rows,           \* the table rows printed
    fpc,            \* position of the filter normalizer run
    tree,           \* the filter tree handed to normalize
    normal          \* the results of normalize, of the tree and then of its result

hvars == <<pc, item, subject, subject_words, from_email, first_mailbox,
           first_keyword, search_chunks, num, results, out, summary, requests,
           resp, exit_status, anomalies>>
cvars == <<cpc, input, sk, parsed>>
lvars == <<lpc, arg_field, arg_prefix, table, sk_prefix, last_key, items, rows>>
fvars == <<fpc, tree, normal>>
\* the variables run-tests leaves alone
ovars == <<cvars, lvars, fvars>>
vars == <<hvars, cvars, lvars, fvars>>

----------------------------------------------------------------------------
(* Bounds of the model *)

\* non-nominal responses the external collaborators may give in one run
MaxAnomalies == 2
\* pieces a token under test is concatenated from
MaxTokenPieces == 3
\* pieces a raw key under test is concatenated from
MaxKeyPieces == 4
\* items one page of the key-value query returns at most
MaxPage == 2
\* children an operator of a filter tree under test has at most
MaxKids == 2

\* number of scenarios of run-tests
NumScenarios == 19
\* subject words used as the search query
QueryWords == 4
\* length of the "TOK#" prefix dropped by parse_token_sk
PrefixLen == 4

----------------------------------------------------------------------------
(* Values *)

\* args.email_id, the seed document, and another document of the account
SeedId == "e1"
OtherId == "e2"
DocIds == {SeedId, OtherId}

\* A filter node as sent to Email/query: a condition (a JSON object of
\* predicate -> value, here a set of <<predicate, value>> pairs) or an
\* operator with its ordered conditions.
Condition(c) == [op |-> "COND", cond |-> c, conditions |-> <<>>]
Operator(o, cs) == [op |-> o, cond |-> {}, conditions |-> cs]
NoFilter == [op |-> "NONE", cond |-> {}, conditions |-> <<>>]
\* the JSON object {}
EmptyCond == Condition({})

\* The seed document as get_item returns it (None: found = FALSE).
Unfetched ==
    [found |-> FALSE, subject |-> <<>>, from |-> <<>>, mailboxIds |-> <<>>,
     keywords |-> <<>>, searchChunks |-> -1]
NoItem ==
    [found |-> FALSE, subject |-> <<>>, from |-> <<>>, mailboxIds |-> <<>>,
     keywords |-> <<>>, searchChunks |-> 0]
SeedItems ==
    [found : {TRUE},
     subject : {<<>>, <<"re", "quarterly", "report", "for", "april">>},
     from : {<<>>, <<"">>, <<"carol@example.com", "dave@example.com">>},
     mailboxIds : {<<>>, <<"mb-inbox", "mb-work">>},
     keywords : {<<>>, <<"$seen">>},
     searchChunks : {0, 3}]

\* What a collaborator hands back to one call.
Reply(k, n, t, i) == [kind |-> k, name |-> n, type |-> t, ids |-> i]
NoReply == Reply("none", "", "", {})
ErrorTypes == {"unsupportedFilter", "UnsupportedFilter", "invalidArguments"}
\* bedrock.invoke_model
EmbedReplies == {Reply("embedding", "", "", {}), Reply("exception", "", "", {})}
\* s3vectors.query_vectors
SimilarityReplies ==
    {Reply("exception", "", "", {}), Reply("no_index", "", "", {})}
    \cup {Reply("vectors", "", "", i) : i \in SUBSET DocIds}
\* lambda.invoke of the Email/query function
EvaluateReplies ==
    {Reply("exception", "", "", {}), Reply("lambda_error", "", "", {})}
    \cup {Reply("response", "Email/query", "", i) : i \in SUBSET DocIds}
    \cup {Reply("response", "error", t, {}) : t \in ErrorTypes}
    \cup {Reply("response", "Email/query", "unsupportedFilter", {}),
          Reply("response", "", "unsupportedFilter", {}),
          Reply("response", "error", "unsupportedFilter", {SeedId})}

\* The reply a healthy collaborator gives to the call of scenario n; every
\* other reply counts against MaxAnomalies.
Nominal(n, r) ==
    \/ r.kind = "embedding"
    \/ r.kind = "vectors" /\ SeedId \in r.ids
    \/ /\ n \in 4..17
       /\ r.kind = "response" /\ r.name = "Email/query" /\ r.type = ""
       /\ SeedId \in r.ids
    \/ n \in {18, 19} /\ r = Reply("response", "error", "unsupportedFilter", {})
Allowed(n, r) == Nominal(n, r) \/ anomalies < MaxAnomalies
Count(n, r) == IF Nominal(n, r) THEN anomalies ELSE anomalies + 1

----------------------------------------------------------------------------
(* Helpers of the harness *)

Min(a, b) == IF a < b THEN a ELSE b
\* " ".join(subject.split()[:4])
SubjectWords(s) == SubSeq(s, 1, Min(QueryWords, Len(s)))
\* from_list[0]...get("S", "") if from_list else ""
FirstOr(list) == IF list # <<>> THEN list[1] ELSE ""
\* sum(results)
RECURSIVE Sum(_)
Sum(rs) == IF rs = <<>> THEN 0 ELSE (IF rs[1] THEN 1 ELSE 0) + Sum(Tail(rs))

\* invoke_query_raw: (name, args), None on a Lambda-level error; an exception
\* of the call propagates.
invoke_query_raw(r) ==
    IF r.kind = "exception" THEN [kind |-> "raise", name |-> "", type |-> "", ids |-> {}]
    ELSE IF r.kind = "lambda_error" THEN [kind |-> "None", name |-> "", type |-> "", ids |-> {}]
    ELSE [kind |-> "tuple", name |-> r.name, type |-> r.type, ids |-> r.ids]

\* invoke_query: (ids, args), None on a Lambda-level error or a JMAP error.
invoke_query(r) ==
    LET result == invoke_query_raw(r) IN
    IF result.kind # "tuple" THEN result
    ELSE IF result.name = "error" THEN [result EXCEPT !.kind = "None"]
    ELSE result

\* cmd_search(return_results=True): the vectors, [] when the index is missing.
cmd_search(r) ==
    IF r.kind = "exception" THEN [kind |-> "raise", ids |-> {}]
    ELSE IF r.kind = "no_index" THEN [kind |-> "list", ids |-> {}]
    ELSE [kind |-> "list", ids |-> r.ids]

\* passed of run_search_test
run_search_test_passed(r) ==
    LET vectors == cmd_search(r) IN
    IF vectors.kind = "raise" THEN FALSE ELSE SeedId \in vectors.ids

\* run_query_test_passed with exact match for membership
run_query_test_passed_exact(r) ==
    LET result == invoke_query(r) IN
    IF result.kind = "raise" THEN FALSE
    ELSE IF result.kind = "None" THEN FALSE
    ELSE result.ids = {SeedId}

\* passed of run_query_test
run_query_test_passed(r) ==
    LET result == invoke_query(r) IN
    IF result.kind = "raise" THEN FALSE
    ELSE IF result.kind = "None" THEN FALSE
    ELSE SeedId \in result.ids

\* run_query_error_test_locals that compares the type only
run_query_error_test_locals_anyname(r, expected_error) ==
    LET result == invoke_query_raw(r)
        passed == IF result.kind = "tuple"
                  THEN result.type = expected_error
                  ELSE FALSE
        suffix == IF result.kind = "raise" THEN "error"
                  ELSE IF result.kind = "None" THEN "unbound"
                  ELSE IF ~passed THEN "got" ELSE "unbound"
    IN  [passed |-> passed, suffix |-> IF passed THEN "" ELSE suffix]

\* passed and suffix of run_query_error_test when it reaches the line that
\* formats the output; suffix "unbound" is the local never assigned.
run_query_error_test_locals(r, expected_error) ==
    LET result == invoke_query_raw(r)
        passed == IF result.kind = "tuple"
                  THEN result.name = "error" /\ result.type = expected_error
                  ELSE FALSE
        suffix == IF result.kind = "raise" THEN "error"
                  ELSE IF result.kind = "None" THEN "unbound"
                  ELSE IF ~passed THEN "got" ELSE "unbound"
    IN  [passed |-> passed, suffix |-> IF passed THEN "" ELSE suffix]

\* SummaryExit tolerating one failure (> 1 for > 0)
SummaryExit_tolerant(failed) == IF failed > 1 THEN 1 ELSE 0
\* exit status of the summary block
SummaryExit(failed) == IF failed > 0 THEN 1 ELSE 0

----------------------------------------------------------------------------
(* The token sort key and parse_token_sk *)

HASH == <<"#">>
\* the "TOK#" prefix
TOK == <<"T", "O", "K", "#">>
\* the "#RCVD#" marker
RCVD == <<"#", "R", "C", "V", "D", "#">>

\* str.find and str.rfind, 1-based, 0 when sub does not occur
Occurrences(s, sub) ==
    {i \in 1..(Len(s) - Len(sub) + 1) : SubSeq(s, i, i + Len(sub) - 1) = sub}
Find(s, sub) ==
    LET o == Occurrences(s, sub) IN
    IF o = {} THEN 0 ELSE CHOOSE i \in o : \A j \in o : i <= j
RFind(s, sub) ==
    LET o == Occurrences(s, sub) IN
    IF o = {} THEN 0 ELSE CHOOSE i \in o : \A j \in o : i >= j
Contains(s, sub) == Occurrences(s, sub) # {}
StartsWith(s, p) == Len(s) >= Len(p) /\ SubSeq(s, 1, Len(p)) = p

\* s.split(sep, 1)
Split1(s, sep) ==
    LET i == Find(s, sep) IN
    IF i = 0 THEN <<s>>
    ELSE <<SubSeq(s, 1, i - 1), SubSeq(s, i + Len(sep), Len(s))>>

\* The key layout TOK#FIELD#token#RCVD#ts#emailId
TokenSk(field, token, receivedAt, emailId) ==
    TOK \o field \o HASH \o token \o RCVD \o receivedAt \o HASH \o emailId

Dict(f, t, r, e) ==
    [kind |-> "dict", field |-> f, token |-> t, receivedAt |-> r, emailId |-> e]
\* the record of "?" returned when the marker is missing
Placeholder == Dict(<<"?">>, <<"?">>, <<"?">>, <<"?">>)
Raised(e) == [kind |-> e, field |-> <<>>, token |-> <<>>, receivedAt |-> <<>>, emailId |-> <<>>]
NoParse == Raised("none")

\* sk[4:]
DropPrefix(key) == SubSeq(key, PrefixLen + 1, Len(key))
\* Unsplit with the length test inverted into one no split satisfies
Unsplit_never(parts) == Len(parts) < 1
\* len(parts) != 2
Unsplit(parts) == Len(parts) # 2
\* field_token.index("#"), 0 for ValueError
FieldSep(field_token) == Find(field_token, HASH)
\* LastHash taking the first "#" (index for rindex)
LastHash_first(ts_email) == Find(ts_email, HASH)
\* ts_email.rindex("#"), 0 for ValueError
LastHash(ts_email) == RFind(ts_email, HASH)

\* parse_token_sk: the dict it returns, or the exception it raises
parse_token_sk(key) ==
    LET rest == DropPrefix(key)
        parts == Split1(rest, RCVD)
    IN  IF Unsplit(parts) THEN Placeholder
        ELSE IF Len(parts) < 2 THEN Raised("IndexError")
        ELSE
          LET field_token == parts[1]
              ts_email == parts[2]
              field_sep == FieldSep(field_token)
              last_hash == LastHash(ts_email)
          IN  IF field_sep = 0 THEN Raised("ValueError")
              ELSE IF last_hash = 0 THEN Raised("ValueError")
              ELSE Dict(SubSeq(field_token, 1, field_sep - 1),
                        SubSeq(field_token, field_sep + 1, Len(field_token)),
                        SubSeq(ts_email, 1, last_hash - 1),
                        SubSeq(ts_email, last_hash + 1, Len(ts_email)))

\* Keys under test: built from a tuple, or raw.
RECURSIVE Flatten(_)
Flatten(ps) == IF ps = <<>> THEN <<>> ELSE Head(ps) \o Flatten(Tail(ps))
Pieced(pieces, max) ==
    {Flatten(ps) : ps \in UNION {[1..k -> pieces] : k \in 0..max}}

TokenPieces == {HASH, <<"R", "C", "V", "D">>, <<"a">>}
Tokens == Pieced(TokenPieces, MaxTokenPieces)
Fields == {<<"F", "R", "O", "M">>, <<"T", "O">>, <<"A", "#", "B">>, <<>>}
ReceivedAts == {<<"2", "0", "Z">>, <<"2", "#", "0">>, RCVD, <<>>}
DocumentIds == {<<"e", "1">>, <<"e", "#", "1">>, <<>>}
KeyPieces == {TOK, RCVD, HASH, <<"F">>}
RawKeys == Pieced(KeyPieces, MaxKeyPieces)

Tuple(f, t, r, d) ==
    [kind |-> "tuple", field |-> f, token |-> t, receivedAt |-> r, documentId |-> d]
RawInput == [kind |-> "raw", field |-> <<>>, token |-> <<>>, receivedAt |-> <<>>,
             documentId |-> <<>>]
NoInput == [RawInput EXCEPT !.kind = "none"]

\* hand the key to parse_token_sk
Parse ==
    /\ cpc = "ready"
    /\ parsed' = parse_token_sk(sk)
    /\ cpc' = "done"
    /\ UNCHANGED <<input, sk, hvars, lvars, fvars>>

CInit ==
    /\ cpc = "ready"
    /\ parsed = NoParse
    /\ \/ \E f \in Fields, t \in Tokens, r \in ReceivedAts, d \in DocumentIds :
            input = Tuple(f, t, r, d) /\ sk = TokenSk(f, t, r, d)
       \/ input = RawInput /\ sk \in RawKeys


----------------------------------------------------------------------------
(* list-tokens *)

\* str.upper and str.lower on the letters the model uses
UpperChar(c) ==
    CASE c = "a" -> "A" [] c = "b" -> "B" [] c = "f" -> "F" [] c = "r" -> "R"
      [] c = "o" -> "O" [] c = "m" -> "M" [] c = "t" -> "T" [] c = "x" -> "X"
      [] OTHER -> c
LowerChar(c) ==
    CASE c = "A" -> "a" [] c = "B" -> "b" [] c = "F" -> "f" [] c = "R" -> "r"
      [] c = "O" -> "o" [] c = "M" -> "m" [] c = "T" -> "t" [] c = "X" -> "x"
      [] OTHER -> c
Upper(s) == [i \in 1..Len(s) |-> UpperChar(s[i])]
Lower(s) == [i \in 1..Len(s) |-> LowerChar(s[i])]

\* SkPrefix that appends the token prefix as typed
SkPrefix_aswritten(field, prefix) ==
    IF field # <<>>
    THEN IF prefix # <<>>
         THEN TOK \o Upper(field) \o HASH \o prefix
         ELSE TOK \o Upper(field) \o HASH
    ELSE TOK

\* sk_prefix as cmd_list_tokens builds it
SkPrefix(field, prefix) ==
    IF field # <<>>
    THEN IF prefix # <<>>
         THEN TOK \o Upper(field) \o HASH \o Lower(prefix)
         ELSE TOK \o Upper(field) \o HASH
    ELSE TOK

FieldArgs == {<<>>, <<"f", "r", "o", "m">>, <<"F", "r", "o", "m">>, <<"T", "O">>}
PrefixArgs == {<<>>, <<"a">>, <<"A">>, <<"a", "B">>, <<"A", "#">>, <<"x">>}
\* Sort keys the partition may hold, in key order: postings, a key with no
\* "#" before the marker, a key with no marker.
StoreKeys ==
    <<TOK \o <<"F", "R", "O", "M">> \o RCVD \o <<"2", "#", "e", "1">>,
      TokenSk(<<"F", "R", "O", "M">>, <<"a", "#", "b">>, <<"2">>, <<"e", "1">>),
      TokenSk(<<"F", "R", "O", "M">>, <<"a", "b">>, <<"2">>, <<"e", "1">>),
      TokenSk(<<"F", "R", "O", "M">>, <<"b">>, <<"2">>, <<"e", "2">>),
      TokenSk(<<"T", "O">>, <<"a", "b">>, <<"2">>, <<"e", "1">>),
      TOK \o <<"T", "O", "#", "b">>>>
\* the subsequence of s at the positions in idx
RECURSIVE Pick(_, _, _)
Pick(s, idx, i) ==
    IF i > Len(s) THEN <<>>
    ELSE (IF i \in idx THEN <<s[i]>> ELSE <<>>) \o Pick(s, idx, i + 1)
Tables == {Pick(StoreKeys, idx, 1) : idx \in SUBSET (1..Len(StoreKeys))}

\* positions of table, after position from, whose key begins with the prefix
Matching(from) == {i \in (from + 1)..Len(table) : StartsWith(table[i], sk_prefix)}

\* build the key condition
BuildPrefix ==
    /\ lpc = "start"
    /\ sk_prefix' = SkPrefix(arg_field, arg_prefix)
    /\ lpc' = "query"
    /\ UNCHANGED <<arg_field, arg_prefix, table, last_key, items, rows, hvars, cvars, fvars>>

\* one turn of the query loop: a page of at most MaxPage items after
\* last_key, and the LastEvaluatedKey when more remain
QueryPage ==
    /\ lpc = "query"
    /\ \E k \in 1..MaxPage :
        LET page == {i \in Matching(last_key) :
                        Cardinality({j \in Matching(last_key) : j <= i}) <= k}
            more == Matching(last_key) \ page
        IN  /\ items' = items \o Pick(table, page, 1)
            /\ last_key' = IF more = {} THEN 0
                           ELSE CHOOSE i \in page : \A j \in page : j <= i
            /\ lpc' = IF more = {} THEN "loaded" ELSE "query"
    /\ UNCHANGED <<arg_field, arg_prefix, table, sk_prefix, rows, hvars, cvars, fvars>>

\* "No tokens found": return
NoTokens ==
    /\ lpc = "loaded" /\ items = <<>>
    /\ lpc' = "done"
    /\ UNCHANGED <<arg_field, arg_prefix, table, sk_prefix, last_key, items, rows,
                   hvars, cvars, fvars>>

\* one turn of the print loop; an exception of parse_token_sk ends the command
PrintRow ==
    /\ lpc = "loaded" /\ items # <<>> /\ Len(rows) < Len(items)
    /\ LET p == parse_token_sk(items[Len(rows) + 1]) IN
       IF p.kind = "dict"
       THEN rows' = Append(rows, p) /\ lpc' = lpc
       ELSE rows' = rows /\ lpc' = "crashed"
    /\ UNCHANGED <<arg_field, arg_prefix, table, sk_prefix, last_key, items,
                   hvars, cvars, fvars>>

\* the loop is over
Listed ==
    /\ lpc = "loaded" /\ items # <<>> /\ Len(rows) = Len(items)
    /\ lpc' = "done"
    /\ UNCHANGED <<arg_field, arg_prefix, table, sk_prefix, last_key, items, rows,
                   hvars, cvars, fvars>>

LIdle ==
    /\ lpc = "off" /\ arg_field = <<>> /\ arg_prefix = <<>> /\ table = <<>>
    /\ sk_prefix = <<>> /\ last_key = 0 /\ items = <<>> /\ rows = <<>>

LInit ==
    /\ lpc = "start"
    /\ arg_field \in FieldArgs /\ arg_prefix \in PrefixArgs
    /\ table \in Tables
    /\ sk_prefix = <<>> /\ last_key = 0 /\ items = <<>> /\ rows = <<>>

----------------------------------------------------------------------------
(* The filter algebra of the query planner: normalize and classify *)

Accepted == [verdict |-> "Accepted", reason |-> ""]
Rejected(reason) == [verdict |-> "Rejected", reason |-> reason]

\* normalize that replaces a single-child OR by its child as it stands
RECURSIVE normalize_shallow(_)
normalize_shallow(t) ==
    IF t.op = "COND" THEN t
    ELSE IF t.op = "OR" /\ Len(t.conditions) = 1 THEN t.conditions[1]
    ELSE Operator(t.op, [i \in 1..Len(t.conditions) |-> normalize_shallow(t.conditions[i])])

\* Bottom-up rewrite: the children are normalized first, then an OR with
\* exactly one child is replaced by that child; AND and NOT keep their shape.
RECURSIVE normalize(_)
normalize(t) ==
    IF t.op = "COND" THEN t
    ELSE LET children == [i \in 1..Len(t.conditions) |-> normalize(t.conditions[i])]
         IN  IF t.op = "OR" /\ Len(children) = 1
             THEN children[1]
             ELSE Operator(t.op, children)

\* After normalization: a NOT anywhere, or an OR with more than one child
\* anywhere, is Rejected(unsupportedFilter); everything else is Accepted.
RECURSIVE HasNot(_)
HasNot(t) ==
    t.op = "NOT" \/ \E i \in 1..Len(t.conditions) : HasNot(t.conditions[i])
RECURSIVE HasWideOr(_)
HasWideOr(t) ==
    \/ t.op = "OR" /\ Len(t.conditions) > 1
    \/ \E i \in 1..Len(t.conditions) : HasWideOr(t.conditions[i])
classify(t) ==
    LET n == normalize(t) IN
    IF HasNot(n) \/ HasWideOr(n) THEN Rejected("unsupportedFilter") ELSE Accepted

\* The trees under test: one kind of leaf, operators of up to MaxKids
\* children two levels deep, and one more level of single-child operators.
Leaf == Condition({<<"from", "carol@example.com">>})
Operators == {"AND", "OR", "NOT"}
Children(ts) == UNION {[1..k -> ts] : k \in 0..MaxKids}
Grown(ts) == ts \cup {Operator(o, cs) : o \in Operators, cs \in Children(ts)}
Wrapped(ts) == ts \cup {Operator(o, <<t>>) : o \in Operators, t \in ts}
Trees == Wrapped(Grown(Grown({Leaf})))

\* normalize the tree, then normalize the result
Normalize ==
    /\ fpc = "ready" /\ Len(normal) < 2
    /\ normal' = Append(normal, normalize(IF normal = <<>> THEN tree ELSE normal[Len(normal)]))
    /\ fpc' = IF Len(normal) = 1 THEN "done" ELSE fpc
    /\ UNCHANGED <<tree, hvars, cvars, lvars>>

FIdle == fpc = "off" /\ tree = NoFilter /\ normal = <<>>
FInit == fpc = "ready" /\ tree \in Trees /\ normal = <<>>

----------------------------------------------------------------------------
(* The scenarios of cmd_run_tests *)

SearchScenarios == 1..3
RejectScenarios == {18, 19}
AcceptScenarios == 4..17

\* vector_type of the search scenarios, "" for None
VectorType(n) == IF n = 2 THEN "subject" ELSE IF n = 3 THEN "body" ELSE ""
\* metadata_filter of cmd_search; an empty one is not sent
MetadataFilter(n) ==
    IF VectorType(n) # "" THEN Condition({<<"type", VectorType(n)>>}) ELSE NoFilter

\* Runs with the keyword test of scenario 8 left out
Runs_unguarded(n) ==
    CASE n = 6 -> first_mailbox # ""
      [] n = 7 -> from_email # ""
      [] n = 9 -> from_email # ""
      [] n = 10 -> from_email # "" /\ first_mailbox # ""
      [] n = 11 -> from_email # "" /\ first_keyword # ""
      [] n = 12 -> first_mailbox # ""
      [] n = 13 -> first_mailbox # "" /\ first_keyword # ""
      [] n = 14 -> first_keyword # ""
      [] n = 15 -> first_mailbox # "" /\ first_keyword # ""
      [] OTHER -> TRUE

\* The condition of the if statement that guards the call of scenario n
\* (TRUE when the call is unconditional).
Runs(n) ==
    CASE n = 6 -> first_mailbox # ""
      [] n = 7 -> from_email # ""
      [] n = 8 -> first_keyword # ""
      [] n = 9 -> from_email # ""
      [] n = 10 -> from_email # "" /\ first_mailbox # ""
      [] n = 11 -> from_email # "" /\ first_keyword # ""
      [] n = 12 -> first_mailbox # ""
      [] n = 13 -> first_mailbox # "" /\ first_keyword # ""
      [] n = 14 -> first_keyword # ""
      [] n = 15 -> first_mailbox # "" /\ first_keyword # ""
      [] OTHER -> TRUE

\* The query_filter argument of scenario n.
QueryFilter(n) ==
    CASE n = 4 -> Condition({<<"text", subject_words>>})
      [] n = 5 -> Condition({<<"subject", subject>>})
      [] n = 6 -> Condition({<<"text", subject_words>>, <<"inMailbox", first_mailbox>>})
      [] n = 7 -> Condition({<<"text", subject_words>>, <<"from", from_email>>})
      [] n = 8 -> Condition({<<"text", subject_words>>, <<"hasKeyword", first_keyword>>})
      [] n = 9 -> Condition({<<"from", from_email>>})
      [] n = 10 -> Condition({<<"from", from_email>>, <<"inMailbox", first_mailbox>>})
      [] n = 11 -> Condition({<<"from", from_email>>, <<"hasKeyword", first_keyword>>})
      [] n = 12 -> Condition({<<"inMailbox", first_mailbox>>})
      [] n = 13 -> Condition({<<"inMailbox", first_mailbox>>, <<"hasKeyword", first_keyword>>})
      [] n = 14 -> Condition({<<"hasKeyword", first_keyword>>})
      [] n = 15 -> Operator("AND", <<Condition({<<"inMailbox", first_mailbox>>}),
                                     Condition({<<"hasKeyword", first_keyword>>})>>)
      [] n = 16 -> Operator("OR", <<Condition({<<"text", subject_words>>})>>)
      [] n = 17 -> Operator("AND",
                     <<IF first_keyword # ""
                       THEN Condition({<<"hasKeyword", first_keyword>>})
                       ELSE EmptyCond,
                       Operator("OR", <<Condition({<<"text", subject_words>>})>>)>>)
      [] n = 18 -> Operator("OR", <<Condition({<<"from", "alice@example.com">>}),
                                    Condition({<<"from", "bob@example.com">>})>>)
      [] n = 19 -> Operator("NOT", <<Condition({<<"from", "alice@example.com">>})>>)
      [] OTHER -> NoFilter

\* expected_error of the reject scenarios
\* ExpectedError with the error type of a different rejection
ExpectedError_invalid(n) == "invalidArguments"
ExpectedError(n) == "unsupportedFilter"
\* The verdict the helper called for scenario n expects of the evaluator:
\* run_query_test an accepted filter, run_query_error_test a rejection.
Expected(n) == IF n \in RejectScenarios THEN Rejected(ExpectedError(n)) ELSE Accepted

\* The scenarios the else branch taken at scenario n reports as skipped, and
\* the entries that branch adds to results.
SkippedBy(n) ==
    IF n = 9 THEN <<9, 10, 11>> ELSE IF n = 12 THEN <<12, 13>> ELSE <<n>>
\* SkipEntries with the from-address block adding three entries for two lines
SkipEntries_extra(n) ==
    IF n = 9 THEN <<TRUE, TRUE, TRUE>> ELSE IF n = 12 THEN <<TRUE, TRUE, TRUE>> ELSE <<TRUE>>
\* SkipEntries with the address block adding two entries for three lines
SkipEntries_short(n) ==
    IF n = 9 THEN <<TRUE, TRUE>> ELSE IF n = 12 THEN <<TRUE, TRUE>> ELSE <<TRUE>>
SkipEntries(n) ==
    IF n = 9 THEN <<TRUE, TRUE, TRUE>> ELSE IF n = 12 THEN <<TRUE, TRUE>> ELSE <<TRUE>>

Line(status, n) == [status |-> status, num |-> n]
Status(passed) == IF passed THEN "PASS" ELSE "FAIL"
Request(n, api, f) == [num |-> n, api |-> api, filter |-> f]

\* Advance that calls a failed scenario again
Advance_retry(n, passed) == IF passed THEN n + 1 ELSE n
\* The statement of cmd_run_tests that follows the call of scenario n.
Advance(n, passed) == n + 1

\* The tail of run_search_test, run_query_test and run_query_error_test: print
\* the line, append the verdict, return to cmd_run_tests.
Record(n, passed) ==
    /\ out' = Append(out, Line(Status(passed), n))
    /\ results' = Append(results, passed)
    /\ num' = Advance(n, passed)
    /\ pc' = "run"

----------------------------------------------------------------------------
(* Actions of run-tests *)

locals == <<item, subject, subject_words, from_email, first_mailbox, first_keyword,
            search_chunks>>

\* sys.exit(1) of a FATAL precondition
Fatal ==
    /\ pc' = "exited"
    /\ exit_status' = 1
    /\ UNCHANGED <<num, results, out, summary, requests, resp, anomalies>>

\* Indexed without the searchChunks check
Indexed_unchecked(chunks) == TRUE
\* Whether the setup block goes on after the searchChunks check.
Indexed(chunks) == chunks # 0

\* The setup block of cmd_run_tests: fetch the seed document, derive the
\* locals, stop on a missing document, an empty subject or searchChunks = 0.
Setup ==
    /\ pc = "main"
    /\ \E it \in SeedItems \cup {NoItem} :
        /\ item' = it
        /\ IF ~it.found
           THEN Fatal /\ UNCHANGED <<subject, subject_words, from_email,
                                      first_mailbox, first_keyword, search_chunks>>
           ELSE IF it.subject = <<>>
           THEN Fatal /\ subject' = it.subject
                      /\ UNCHANGED <<subject_words, from_email, first_mailbox,
                                     first_keyword, search_chunks>>
           ELSE /\ subject' = it.subject
                /\ from_email' = FirstOr(it.from)
                /\ first_mailbox' = FirstOr(it.mailboxIds)
                /\ first_keyword' = FirstOr(it.keywords)
                /\ search_chunks' = it.searchChunks
                /\ IF ~Indexed(it.searchChunks)
                   THEN Fatal /\ UNCHANGED subject_words
                   ELSE /\ subject_words' = SubjectWords(it.subject)
                        /\ pc' = "run"
                        /\ num' = 1
                        /\ results' = <<>>
                        /\ UNCHANGED <<out, summary, requests, resp,
                                       exit_status, anomalies>>
    /\ UNCHANGED ovars

\* run_search_test up to bedrock.invoke_model
SearchEmbed ==
    /\ pc = "run" /\ num \in SearchScenarios
    /\ requests' = Append(requests, Request(num, "embed", NoFilter))
    /\ pc' = "embed"
    /\ resp' = NoReply
    /\ UNCHANGED <<locals, num, results, out, summary, exit_status, anomalies, ovars>>

\* the embedding arrives: query S3 Vectors, or the exception ends the scenario
SearchQuery ==
    /\ pc = "embed"
    /\ \E r \in EmbedReplies :
        /\ Allowed(num, r)
        /\ anomalies' = Count(num, r)
        /\ resp' = r
        /\ IF r.kind = "exception"
           THEN Record(num, FALSE) /\ UNCHANGED requests
           ELSE /\ requests' = Append(requests, Request(num, "similarity", MetadataFilter(num)))
                /\ pc' = "similar"
                /\ UNCHANGED <<num, results, out>>
    /\ UNCHANGED <<locals, summary, exit_status, ovars>>

\* the vectors arrive: score the search scenario
SearchDone ==
    /\ pc = "similar"
    /\ \E r \in SimilarityReplies :
        /\ Allowed(num, r)
        /\ anomalies' = Count(num, r)
        /\ resp' = r
        /\ Record(num, run_search_test_passed(r))
    /\ UNCHANGED <<locals, summary, requests, exit_status, ovars>>

\* run_query_test / run_query_error_test up to lambda.invoke
QueryInvoke ==
    /\ pc = "run" /\ num \in AcceptScenarios \cup RejectScenarios
    /\ Runs(num)
    /\ requests' = Append(requests, Request(num, "evaluate", QueryFilter(num)))
    /\ pc' = "evaluate"
    /\ resp' = NoReply
    /\ UNCHANGED <<locals, num, results, out, summary, exit_status, anomalies, ovars>>

\* the evaluator answers an accept scenario: score it
QueryDone ==
    /\ pc = "evaluate" /\ num \in AcceptScenarios
    /\ \E r \in EvaluateReplies :
        /\ Allowed(num, r)
        /\ anomalies' = Count(num, r)
        /\ resp' = r
        /\ Record(num, run_query_test_passed(r))
    /\ UNCHANGED <<locals, summary, requests, exit_status, ovars>>

\* the evaluator answers a reject scenario: score it; formatting the line
\* with suffix unassigned raises UnboundLocalError, which nothing catches
QueryErrorDone ==
    /\ pc = "evaluate" /\ num \in RejectScenarios
    /\ \E r \in EvaluateReplies :
        /\ Allowed(num, r)
        /\ anomalies' = Count(num, r)
        /\ resp' = r
        /\ LET l == run_query_error_test_locals(r, ExpectedError(num)) IN
           IF l.suffix = "unbound"
           THEN /\ pc' = "exited"
                /\ exit_status' = 1
                /\ UNCHANGED <<num, results, out>>
           ELSE Record(num, l.passed) /\ UNCHANGED exit_status
    /\ UNCHANGED <<locals, summary, requests, ovars>>

\* an else branch: print the [SKIP] lines, add the entries
Skip ==
    /\ pc = "run" /\ num \in AcceptScenarios
    /\ ~Runs(num)
    /\ out' = out \o [i \in 1..Len(SkippedBy(num)) |-> Line("SKIP", SkippedBy(num)[i])]
    /\ results' = results \o SkipEntries(num)
    /\ num' = num + Len(SkippedBy(num))
    /\ UNCHANGED <<pc, locals, summary, requests, resp, exit_status, anomalies, ovars>>

\* the summary block
Summary ==
    /\ pc = "run" /\ num = NumScenarios + 1
    /\ LET passed == Sum(results)
           failed == Len(results) - passed
           total == Len(results)
       IN  /\ summary' = <<total, passed, failed>>
           /\ exit_status' = SummaryExit(failed)
    /\ pc' = "exited"
    /\ UNCHANGED <<locals, num, results, out, requests, resp, anomalies, ovars>>

HInit ==
    /\ pc \in {"main", "off"}
    /\ item = Unfetched
    /\ subject = <<>> /\ subject_words = <<>>
    /\ from_email = "" /\ first_mailbox = "" /\ first_keyword = ""
    /\ search_chunks = 0
    /\ num = 0
    /\ results = <<>> /\ out = <<>> /\ summary = <<>> /\ requests = <<>>
    /\ resp = NoReply
    /\ exit_status = -1
    /\ anomalies = 0

CIdle == cpc = "off" /\ input = NoInput /\ sk = <<>> /\ parsed = NoParse

Init == HInit /\ pc = "main" /\ CIdle /\ LIdle /\ FIdle

Next ==
    \/ Setup
    \/ SearchEmbed
    \/ SearchQuery
    \/ SearchDone
    \/ QueryInvoke
    \/ QueryDone
    \/ QueryErrorDone
    \/ Skip
    \/ Summary

Spec == Init /\ [][Next]_vars

\* the parser run on its own
InitCodec == HInit /\ pc = "off" /\ CInit /\ LIdle /\ FIdle
NextCodec == Parse
SpecCodec == InitCodec /\ [][NextCodec]_vars

\* list-tokens on its own
InitList == HInit /\ pc = "off" /\ CIdle /\ LInit /\ FIdle
NextList ==
    \/ BuildPrefix
    \/ QueryPage
    \/ NoTokens
    \/ PrintRow
    \/ Listed
SpecList == InitList /\ [][NextList]_vars

\* the filter normalizer on its own
InitFilter == HInit /\ pc = "off" /\ CIdle /\ LIdle /\ FInit
NextFilter == Normalize
SpecFilter == InitFilter /\ [][NextFilter]_vars

----------------------------------------------------------------------------
(* Claims about parse_token_sk, checked under SpecCodec *)

RoundTrips ==
    parsed = Dict(input.field, input.token, input.receivedAt, input.documentId)

\* C1 as stated: every key built from a token without the marker "#RCVD#"
\* and a documentId without "#" decodes to the tuple it was built from.
C1_RoundTripAnyToken ==
    (/\ cpc = "done" /\ input.kind = "tuple"
     /\ ~Contains(input.token, RCVD)
     /\ ~Contains(input.documentId, HASH))
    => RoundTrips

\* the marker does not begin inside "#" + token + "#RCVD", i.e. the first
\* "#RCVD#" of the key is the one the key layout put there
MarkerFirst(token) ==
    ~Contains(HASH \o token \o <<"#", "R", "C", "V", "D">>, RCVD)

\* C1 amended: a key decodes to the tuple it was built from when moreover the
\* field has no "#" and "#RCVD#" does not occur in "#" + token + "#RCVD" (the
\* token is not "RCVD", does not start with "RCVD#", does not end with
\* "#RCVD"); other "#" in the token and any "#" in receivedAt are harmless.
C1_RoundTrip ==
    (/\ cpc = "done" /\ input.kind = "tuple"
     /\ ~Contains(input.field, HASH)
     /\ MarkerFirst(input.token)
     /\ ~Contains(input.documentId, HASH))
    => RoundTrips

\* a token with "#" and a receivedAt with "#" that round-trip
C1_Witness ==
    /\ cpc = "done" /\ input.kind = "tuple"
    /\ Contains(input.token, HASH) /\ Contains(input.token, <<"R", "C", "V", "D">>)
    /\ Contains(input.receivedAt, HASH)
    /\ ~Contains(input.field, HASH) /\ input.field # <<>>
    /\ MarkerFirst(input.token)
    /\ ~Contains(input.documentId, HASH)
    /\ RoundTrips

\* C2 as stated: a key without the "TOK#" prefix or without the "#RCVD#"
\* anchor makes parse_token_sk fail; no record comes back for it.
C2_MalformedKeyFails ==
    (/\ cpc = "done"
     /\ ~StartsWith(sk, TOK) \/ ~Contains(sk, RCVD))
    => parsed.kind # "dict"

\* C2 amended: parse_token_sk does not look at the first four characters;
\* when the rest of the key lacks "#RCVD#" it returns the record of "?" and
\* raises nothing, and when the rest has the anchor the key is decoded, or
\* ValueError is raised, whether or not the key starts with "TOK#".
C2_PlaceholderNotError ==
    cpc = "done" =>
        IF Contains(SubSeq(sk, Len(TOK) + 1, Len(sk)), RCVD)
        THEN parsed.kind \in {"dict", "ValueError"} /\ parsed # Placeholder
        ELSE parsed = Placeholder

\* a key with neither prefix nor anchor that came back as the placeholder
C2_Witness ==
    /\ cpc = "done"
    /\ Len(sk) > Len(TOK)
    /\ ~StartsWith(sk, TOK) /\ ~Contains(sk, RCVD)
    /\ parsed = Placeholder

----------------------------------------------------------------------------
(* Claims about run-tests, checked under Spec *)

LastLine == out[Len(out)]
LastRequest == requests[Len(requests)]
\* the setup block found nothing fatal
PreconditionsMet ==
    item.found /\ item.subject # <<>> /\ item.searchChunks # 0
\* the reply in resp is the one the last printed line was scored from
Scored(scenarios) ==
    /\ out # <<>> /\ requests # <<>> /\ resp # NoReply
    /\ Len(results) = Len(out)
    /\ LastLine.num = LastRequest.num
    /\ LastLine.num \in scenarios
    /\ LastLine.status # "SKIP"
\* a non-skipped scenario was recorded as failed
FailedRecorded ==
    \E i \in 1..Len(results) : i <= Len(out) /\ out[i].status # "SKIP" /\ ~results[i]

\* C3 as stated: the process ends with exit status 1 if and only if a
\* non-skipped scenario was recorded as failed, and with 0 otherwise.
C3_ExitIffFailedRecorded ==
    pc = "exited" => exit_status = (IF FailedRecorded THEN 1 ELSE 0)

\* C3 amended: a run that prints its summary exits with 1 if and only if a
\* non-skipped scenario was recorded as failed and with 0 otherwise, however
\* many were skipped; a run that stops before the summary (a fatal
\* precondition, an uncaught exception) exits with 1 with no failure recorded.
C3_ExitStatus ==
    pc = "exited" =>
        exit_status = (IF summary = <<>> \/ FailedRecorded THEN 1 ELSE 0)

\* a run with skipped scenarios and no failure that ended successfully
C3_Witness ==
    /\ pc = "exited" /\ summary # <<>> /\ exit_status = 0
    /\ \E i \in 1..Len(out) : out[i].status = "SKIP"
    /\ \E i \in 1..Len(out) : out[i].status = "PASS"

\* C4: every scenario printed as skipped has exactly one entry in results,
\* and that entry is True.
C4_SkippedPass ==
    /\ Len(results) = Len(out)
    /\ \A i, j \in 1..Len(out) : out[i].num = out[j].num => i = j
    /\ \A i \in 1..Len(out) : out[i].status = "SKIP" => results[i]

\* a finished run of a document with no mailbox, from address or keyword
C4_Witness ==
    /\ pc = "exited" /\ summary # <<>> /\ exit_status = 0
    /\ first_mailbox = "" /\ from_email = "" /\ first_keyword = ""
    /\ Cardinality({i \in 1..Len(out) : out[i].status = "SKIP"}) = 10

\* the reply in resp is an error for the scenario it was given to
ErrorReply ==
    \/ resp.kind \in {"exception", "lambda_error"}
    \/ /\ resp.kind = "response" /\ resp.name = "error"
       /\ LastRequest.num \in AcceptScenarios

\* C5: an error of the call of any scenario, accept or reject, is recorded as
\* that scenario's failure, and the run goes on to its summary.
C5_ErrorRecovered ==
    /\ (requests # <<>> /\ pc \in {"run", "exited"} /\ ErrorReply)
        => \E i \in 1..Len(out) :
              /\ out[i].num = LastRequest.num
              /\ out[i].status = "FAIL"
              /\ i <= Len(results) /\ ~results[i]
    /\ (pc = "exited" /\ PreconditionsMet)
        => summary # <<>> /\ Len(results) = NumScenarios

\* C6: after a fatal precondition failure (no seed document, searchChunks 0)
\* the process has exited with status 1, has issued no request and recorded
\* no result.
C6_FatalBeforeDispatch ==
    (pc # "main" /\ (~item.found \/ item.searchChunks = 0)) =>
        /\ pc = "exited" /\ exit_status = 1
        /\ requests = <<>> /\ results = <<>> /\ out = <<>> /\ summary = <<>>

\* a document that was found but never indexed
C6_Witness ==
    /\ pc = "exited" /\ item.found /\ item.subject # <<>>
    /\ item.searchChunks = 0 /\ item.mailboxIds # <<>>

\* the reply is a non-error result whose identifiers include the seed id
HasSeed ==
    /\ resp.kind \in {"response", "vectors"}
    /\ resp.name # "error"
    /\ SeedId \in resp.ids

\* C7: an accept scenario is recorded as passed if and only if the call
\* returned a non-error result whose identifiers contain the seed id.
C7_AcceptVerdict ==
    Scored(SearchScenarios \cup AcceptScenarios) =>
        /\ results[Len(results)] <=> HasSeed
        /\ LastLine.status = (IF HasSeed THEN "PASS" ELSE "FAIL")

\* a query scenario that passed on a result holding another id as well
C7_Witness ==
    /\ Scored(AcceptScenarios)
    /\ resp.ids = {SeedId, OtherId}
    /\ results[Len(results)]

\* the reply is the error the reject scenario expects
ExpectedRejection ==
    resp.kind = "response" /\ resp.name = "error" /\ resp.type = "unsupportedFilter"

\* C8: a reject scenario is recorded as passed if and only if the response is
\* named "error" and its type is the string "unsupportedFilter"; every other
\* response of the evaluator is recorded as failed.
C8_RejectVerdict ==
    /\ Scored(RejectScenarios) =>
        /\ results[Len(results)] <=> ExpectedRejection
        /\ LastLine.status = (IF ExpectedRejection THEN "PASS" ELSE "FAIL")
    /\ (/\ requests # <<>> /\ LastRequest.num \in RejectScenarios
        /\ resp.kind = "response")
        => Scored(RejectScenarios)

\* a reject scenario that failed on a response with the type but not the name
C8_Witness ==
    /\ Scored(RejectScenarios)
    /\ resp.kind = "response" /\ resp.name # "error"
    /\ resp.type = "unsupportedFilter"
    /\ ~results[Len(results)]

\* the filter holds a condition with no predicate
RECURSIVE HasEmptyCondition(_)
HasEmptyCondition(f) ==
    IF f.op = "COND" THEN f.cond = {}
    ELSE \E i \in 1..Len(f.conditions) : HasEmptyCondition(f.conditions[i])
\* the filter holds an optional field with the empty value
OptionalPredicates == {"inMailbox", "from", "hasKeyword"}
RECURSIVE HasEmptyValue(_)
HasEmptyValue(f) ==
    IF f.op = "COND"
    THEN \E c \in f.cond : c[1] \in OptionalPredicates /\ c[2] = ""
    ELSE \E i \in 1..Len(f.conditions) : HasEmptyValue(f.conditions[i])
EvaluatorRequests ==
    {i \in 1..Len(requests) : requests[i].api = "evaluate"}
\* scenarios 6..15 by the optional fields their input is built from
UsesMailbox == {6, 10, 12, 13, 15}
UsesFrom == {7, 9, 10, 11}
UsesKeyword == {8, 11, 13, 14, 15}
UsesAbsentField(n) ==
    \/ n \in UsesMailbox /\ first_mailbox = ""
    \/ n \in UsesFrom /\ from_email = ""
    \/ n \in UsesKeyword /\ first_keyword = ""
Skipped(n) == \E i \in 1..Len(out) : out[i].num = n /\ out[i].status = "SKIP"
Requested(n) == \E i \in EvaluatorRequests : requests[i].num = n

\* C9 as stated: no scenario that uses an absent optional field issues a
\* request, and no filter with an empty condition or an empty field value is
\* sent, scenario 17 included.
C9_NoEmptyConditionSent ==
    /\ \A i \in EvaluatorRequests :
          ~HasEmptyCondition(requests[i].filter) /\ ~HasEmptyValue(requests[i].filter)
    /\ \A n \in 6..17 :
          (n < num /\ (UsesAbsentField(n) \/ (n = 17 /\ first_keyword = "")))
            => Skipped(n) /\ ~Requested(n)

\* C9 amended: each of scenarios 6..15 that uses an absent optional field is
\* marked skipped and issues no request, so no empty field value is ever
\* sent; scenario 17 is never skipped: without a keyword its request is still
\* issued, with the empty condition {} in the place of the hasKeyword
\* condition, and it is the only request that holds an empty condition.
C9_SkipsExceptScenario17 ==
    /\ \A i \in EvaluatorRequests :
          /\ ~HasEmptyValue(requests[i].filter)
          /\ HasEmptyCondition(requests[i].filter)
                <=> (requests[i].num = 17 /\ first_keyword = "")
          /\ (requests[i].num = 17 /\ first_keyword = "")
                => requests[i].filter.conditions[1] = EmptyCond
    /\ \A n \in 6..15 :
          /\ (n < num /\ UsesAbsentField(n)) => Skipped(n)
          /\ Skipped(n) => ~Requested(n) /\ UsesAbsentField(n)
    /\ ~Skipped(17) /\ (num > 17 => Requested(17))

\* scenario 17 sent for a document without keyword, scenario 8 skipped
C9_Witness ==
    /\ first_keyword = "" /\ Skipped(8) /\ Skipped(14)
    /\ \E i \in EvaluatorRequests :
          requests[i].num = 17 /\ HasEmptyCondition(requests[i].filter)

\* C10: scenarios are handled in the order 1..19, the request of a scenario
\* is issued only when the results of all earlier scenarios are in the list,
\* and no request is issued twice.
C10_SequentialNoRetry ==
    /\ \A i \in 1..Len(out) : out[i].num = i
    /\ \A i \in 1..Len(requests) : requests[i].num = num /\ num <= NumScenarios
          => Len(results) = num - 1
    /\ \A i \in 1..Len(requests) : requests[i].num <= Len(results) + 1
    /\ \A i, j \in 1..Len(requests) :
          (requests[i].num = requests[j].num /\ requests[i].api = requests[j].api)
            => i = j
    /\ \A i, j \in 1..Len(requests) : i < j => requests[i].num <= requests[j].num

\* a finished run in which a scenario failed and the later ones still ran once
C10_Witness ==
    /\ pc = "exited" /\ summary # <<>>
    /\ \E i \in 1..Len(out) : out[i].status = "FAIL" /\ i < NumScenarios
    /\ Len(requests) = NumScenarios + 3

----------------------------------------------------------------------------
(* Claims about list-tokens, checked under SpecList *)

\* the letters of the model, lower case with upper case
CasePairs ==
    {<<"a", "A">>, <<"b", "B">>, <<"f", "F">>, <<"r", "R">>, <<"o", "O">>,
     <<"m", "M">>, <<"t", "T">>, <<"x", "X">>}
\* x and y differ in case only
SameLetters(x, y) ==
    /\ Len(x) = Len(y)
    /\ \A i \in 1..Len(x) :
          x[i] = y[i] \/ <<x[i], y[i]>> \in CasePairs \/ <<y[i], x[i]>> \in CasePairs
\* u is x upper-cased, l is x lower-cased
UpperCased(u, x) ==
    SameLetters(u, x) /\ \A i \in 1..Len(u) : u[i] \notin {p[1] : p \in CasePairs}
LowerCased(l, x) ==
    SameLetters(l, x) /\ \A i \in 1..Len(l) : l[i] \notin {p[2] : p \in CasePairs}

\* postings of upper-cased fields and lower-cased tokens
PostingFields == {<<"F", "R", "O", "M">>, <<"T", "O">>}
PostingTokens == {<<"a", "#", "b">>, <<"a", "b">>, <<"b">>}
Postings ==
    {TokenSk(f, t, <<"2">>, d) :
        f \in PostingFields, t \in PostingTokens, d \in {<<"e", "1">>, <<"e", "2">>}}
\* the arguments name the posting's field and a prefix of its token, in any case
Asked(f, t) ==
    /\ arg_field # <<>> /\ SameLetters(arg_field, f)
    /\ \E j \in 0..Len(t) : SameLetters(arg_prefix, SubSeq(t, 1, j))

\* C11: the scan prefix is "TOK#" without a field, "TOK#" + upper(field) +
\* "#" with a field, followed by lower(prefix) when a prefix is given too;
\* every posting key of an upper-cased field and a lower-cased token starts
\* with the prefix built from any case variant of the field and of a prefix
\* of the token, and the scan collects every such posting of the table.
C11_PrefixFindsPostings ==
    lpc \notin {"off", "start"} =>
        /\ IF arg_field = <<>> THEN sk_prefix = TOK
           ELSE LET n == Len(TOK) + Len(arg_field) IN
                /\ Len(sk_prefix) = n + 1 + Len(arg_prefix)
                /\ SubSeq(sk_prefix, 1, Len(TOK)) = TOK
                /\ UpperCased(SubSeq(sk_prefix, Len(TOK) + 1, n), arg_field)
                /\ sk_prefix[n + 1] = "#"
                /\ LowerCased(SubSeq(sk_prefix, n + 2, Len(sk_prefix)), arg_prefix)
        /\ \A f \in PostingFields, t \in PostingTokens :
              Asked(f, t) =>
                \A d \in {<<"e", "1">>, <<"e", "2">>} :
                    StartsWith(TokenSk(f, t, <<"2">>, d), sk_prefix)
        /\ lpc \in {"loaded", "done", "crashed"} =>
              \A i \in 1..Len(table) :
                  (\E f \in PostingFields, t \in PostingTokens, d \in {<<"e", "1">>, <<"e", "2">>} :
                      Asked(f, t) /\ table[i] = TokenSk(f, t, <<"2">>, d))
                  => \E k \in 1..Len(items) : items[k] = table[i]

\* field and prefix typed in mixed case, the posting found and printed
C11_Witness ==
    /\ lpc = "done"
    /\ arg_field = <<"F", "r", "o", "m">> /\ arg_prefix = <<"a", "B">>
    /\ Len(table) = Len(StoreKeys)
    /\ rows = <<Dict(<<"F", "R", "O", "M">>, <<"a", "b">>, <<"2">>, <<"e", "1">>)>>

----------------------------------------------------------------------------
(* Claims about the summary of run-tests, checked under Spec *)

\* C14: whenever run-tests reaches its summary, results holds exactly 19
\* entries, one per scenario 1..19 in order, whichever optional fields the
\* seed document has and however each scenario ended (pass, fail or skip),
\* and the printed passed and failed counts add up to 19.
C14_NineteenEntries ==
    summary # <<>> =>
        /\ Len(results) = NumScenarios /\ Len(out) = NumScenarios
        /\ \A i \in 1..Len(out) : out[i].num = i
        /\ summary[1] = NumScenarios
        /\ summary[2] = Cardinality({i \in 1..Len(results) : results[i]})
        /\ summary[2] + summary[3] = NumScenarios

\* a summary after passed, failed and skipped scenarios, of a document with a
\* mailbox but no from address
C14_Witness ==
    /\ summary # <<>>
    /\ first_mailbox # "" /\ from_email = ""
    /\ \E i, j, k \in 1..Len(out) :
          out[i].status = "PASS" /\ out[j].status = "FAIL" /\ out[k].status = "SKIP"
    /\ summary[3] > 0 /\ exit_status = 1

----------------------------------------------------------------------------
(* Claims about the totality of parse_token_sk, checked under SpecCodec *)

\* C15: parse_token_sk is total: for every input string it returns a record
\* of the four keys field, token, receivedAt, emailId and raises nothing,
\* also for a key that has the marker but no "#" between the four-character
\* prefix and the marker, or no "#" after the marker.
C15_Total ==
    cpc = "done" =>
        /\ parsed.kind = "dict"
        /\ parsed.kind \notin {"ValueError", "IndexError"}

----------------------------------------------------------------------------
(* Claims about the filter algebra, checked under Spec and SpecFilter *)

OperatorScenarios == 15..19

\* C12: for each filter-operator scenario 15..19 the verdict the harness
\* expects is classify of the filter the scenario sends: 15 (AND of two
\* conditions), 16 (OR of one condition) and 17 (AND holding a single-child
\* OR) are expected accepted, 18 (OR of two conditions) and 19 (NOT) are
\* expected rejected with unsupportedFilter.
C12_ExpectedIsClassify ==
    \A i \in EvaluatorRequests :
        LET n == requests[i].num
            verdict == classify(requests[i].filter)
        IN  n \in OperatorScenarios =>
                /\ verdict = Expected(n)
                /\ n \in {15, 16, 17} => verdict = Accepted
                /\ n \in {18, 19} => verdict = Rejected("unsupportedFilter")

\* a run that sent the filters of all five operator scenarios
C12_Witness ==
    /\ first_mailbox # "" /\ first_keyword # ""
    /\ \A n \in OperatorScenarios : Requested(n)
    /\ \E i \in EvaluatorRequests :
          requests[i].num = 16 /\ normalize(requests[i].filter).op = "COND"

RECURSIVE HasUnaryOr(_)
HasUnaryOr(t) ==
    \/ t.op = "OR" /\ Len(t.conditions) = 1
    \/ \E i \in 1..Len(t.conditions) : HasUnaryOr(t.conditions[i])

\* C13: normalize(normalize(tree)) = normalize(tree) for every tree of
\* Condition leaves and AND, OR, NOT operators of any number of children,
\* zero included, and the normalized tree holds no OR with exactly one child
\* at any depth.
C13_NormalizeFixpoint ==
    /\ Len(normal) >= 1 => ~HasUnaryOr(normal[1])
    /\ Len(normal) = 2 => normal[2] = normal[1]

\* three nested single-child ORs collapsed to the leaf, twice normalized
C13_Witness ==
    /\ fpc = "done"
    /\ tree = Operator("OR", <<Operator("OR", <<Operator("OR", <<Leaf>>)>>)>>)
    /\ Len(normal) = 2 /\ normal[1] = Leaf

====
